---- MODULE Spec2Model ----
(***************************************************************************)
(* MyMultiBoxing: the key listener of core.py (CoreController), the        *)
(* shortcut table of shortcuts.py and the two send strategies of           *)
(* broadcaster.py, as one state machine.                                   *)
(*                                                                         *)
(* Window ids are the decimal strings xdotool prints; here 1..MaxWin, and  *)
(* NoWin stands for the empty string x11_utils.get_active_window returns   *)
(* when the query fails.                                                   *)
(* A Python string is a sequence of atoms: the separator "+" or a chunk of *)
(* text without "+".  "Alt+g" is <<"Alt", "+", "g">>, "" is << >>.          *)
(***************************************************************************)
EXTENDS Naturals, Integers, Sequences, FiniteSets, TLC

\* ------------------------------------------------------------- bounds
MaxWin == 3
MaxHeld == 2
MaxInjQ == 2
MaxUngrabFailures == 1 \* ungrab calls of one stop() that fail
MaxGuard == 2          \* nested entries of the injection guard
MaxHoldCalls == 2

Windows == 1..MaxWin
NoLast == -1           \* the poller's last before its first query (None)
NoWin == 0
None == << >>

\* ------------------------------------------------------------ strings
Sep == "+"

\* str.lower() on the chunks the model uses
Lower(p) ==
    CASE p = "Alt" -> "alt"
      [] p = "ALT" -> "alt"
      [] p = "Control" -> "control"
      [] p = "CONTROL" -> "control"
      [] p = "Super" -> "super"
      [] p = "Ctrl" -> "ctrl"
      [] p = "Shift" -> "shift"
      [] p = "SHIFT" -> "shift"
      [] p = "F1" -> "f1"
      [] p = "F2" -> "f2"
      [] p = "G" -> "g"
      [] p = "B" -> "b"
      [] p = "Escape" -> "escape"
      [] p = "Alt_L" -> "alt_l"
      [] p = "Alt_R" -> "alt_r"
      [] p = "Control_L" -> "control_l"
      [] p = "Control_R" -> "control_r"
      [] p = " Alt" -> " alt"
      [] p = "G " -> "g "
      [] OTHER -> p

\* str.strip() on the chunks the model uses
Strip(p) ==
    CASE p = " " -> ""
      [] p = " Alt" -> "Alt"
      [] p = " alt" -> "alt"
      [] p = "G " -> "G"
      [] p = "g " -> "g"
      [] OTHER -> p

\* str.split("+"): the parts between the separators, "" for an empty part
RECURSIVE Split(_)
Split(s) ==
    IF s = << >> THEN <<"">>
    ELSE IF Head(s) = Sep THEN <<"">> \o Split(Tail(s))
    ELSE LET r == Split(Tail(s))
         IN  <<Head(s) \o Head(r)>> \o Tail(r)

\* "+".join(parts)
RECURSIVE Join(_)
Join(parts) ==
    IF parts = << >> THEN << >>
    ELSE IF Len(parts) = 1 THEN (IF parts[1] = "" THEN << >> ELSE <<parts[1]>>)
    ELSE (IF parts[1] = "" THEN << >> ELSE <<parts[1]>>) \o <<Sep>> \o Join(Tail(parts))

RECURSIVE MapStripLower(_)
MapStripLower(parts) ==
    IF parts = << >> THEN << >>
    ELSE <<Lower(Strip(parts[1]))>> \o MapStripLower(Tail(parts))

NonEmptyPart(p) == Strip(p) # ""
InSeq(x, s) == \E i \in 1..Len(s) : s[i] = x

\* ------------------------------------------------------- shortcuts.py
CANON_ORDER == <<"alt", "control", "shift">>

InCanon(p) == InSeq(p, CANON_ORDER)

\* variant: the modifiers are kept in the order they were written in
normalize_shortcut_as_written(spec) ==
    IF spec = << >> THEN << >>
    ELSE LET parts == MapStripLower(SelectSeq(Split(spec), NonEmptyPart))
         IN  IF parts = << >> THEN << >>
             ELSE Join(SelectSeq(SubSeq(parts, 1, Len(parts) - 1), InCanon)
                       \o <<parts[Len(parts)]>>)

normalize_shortcut(spec) ==
    IF spec = << >> THEN << >>
    ELSE LET parts == MapStripLower(SelectSeq(Split(spec), NonEmptyPart))
         IN  IF parts = << >> THEN << >>
             ELSE LET key == parts[Len(parts)]
                      mods == SelectSeq(SubSeq(parts, 1, Len(parts) - 1), InCanon)
                      IsMod(m) == InSeq(m, mods)
                      ordered == SelectSeq(CANON_ORDER, IsMod)
                  IN  Join(ordered \o <<key>>)

ActionKeys == <<"prev", "next", "minimize_all", "close_all",
                "toggle_broadcast", "toggle_overlay">>

\* _rebuild, the action table: a dict filled in ActionKeys order, a later
\* assignment to the same combo replacing the earlier one
RECURSIVE BuildActionMap(_, _, _)
BuildActionMap(sc, i, m) ==
    IF i > Len(ActionKeys) THEN m
    ELSE LET combo == normalize_shortcut(sc[ActionKeys[i]])
         IN  BuildActionMap(sc, i + 1,
                 IF combo # << >>
                 THEN [c \in DOMAIN m \cup {combo} |->
                          IF c = combo THEN ActionKeys[i] ELSE m[c]]
                 ELSE m)

RebuildActionMap(sc) == BuildActionMap(sc, 1, [c \in {} |-> ""])

\* _rebuild, the window-index list: (combo, idx) pairs in config order,
\* idx the 0-based position in window_keys
RECURSIVE BuildWindowIndices(_, _)
BuildWindowIndices(wk, i) ==
    IF i > Len(wk) THEN << >>
    ELSE LET norm == normalize_shortcut(wk[i])
         IN  (IF norm # << >> THEN << <<norm, i - 1>> >> ELSE << >>)
             \o BuildWindowIndices(wk, i + 1)

RebuildWindowIndices(sc) == BuildWindowIndices(sc.window_keys, 1)

\* ShortcutHandler.match on a table (am, wi)
RECURSIVE MatchWindow(_, _, _)
MatchWindow(wi, i, combo_now) ==
    IF i > Len(wi) THEN None
    ELSE IF combo_now = wi[i][1] THEN <<"window", wi[i][2]>>
    ELSE MatchWindow(wi, i + 1, combo_now)

match(am, wi, combo_now) ==
    IF combo_now = << >> THEN None
    ELSE IF combo_now \in DOMAIN am /\ am[combo_now] # ""
         THEN <<"action", am[combo_now]>>
    ELSE MatchWindow(wi, 1, combo_now)

\* LowerStr / StripStr: str.lower() and str.strip() of a whole string
Chunk(p) == IF p = "" THEN << >> ELSE <<p>>

RECURSIVE LowerStr(_)
LowerStr(s) ==
    IF s = << >> THEN << >>
    ELSE <<(IF Head(s) = Sep THEN Sep ELSE Lower(Head(s)))>> \o LowerStr(Tail(s))

StripStr(s) ==
    IF s = << >> THEN << >>
    ELSE IF Len(s) = 1 THEN (IF s[1] = Sep THEN s ELSE Chunk(Strip(s[1])))
    ELSE (IF s[1] = Sep THEN <<Sep>> ELSE Chunk(Strip(s[1])))
         \o SubSeq(s, 2, Len(s) - 1)
         \o (IF s[Len(s)] = Sep THEN <<Sep>> ELSE Chunk(Strip(s[Len(s)])))

\* ------------------------------------------------------- key objects
\* pynput key objects: KeyCode(char=c) is the character c itself, a
\* member of pynput's Key enum is its str(), "Key.<name>"
CharKeys == {"g", "G"}
AltKeys == {"Key.alt", "Key.alt_l", "Key.alt_r"}
CtrlKeys == {"Key.ctrl", "Key.ctrl_l", "Key.ctrl_r"}
ShiftKeys == {"Key.shift", "Key.shift_l", "Key.shift_r"}
ModifierKeys == AltKeys \cup CtrlKeys \cup ShiftKeys

\* the key objects the listener is handed in the model
Keys == {"g", "G", "Key.alt", "Key.alt_r", "Key.ctrl", "Key.shift", "Key.esc", "Key.f1"}

\* the physical key behind a key object (caps lock turns g into G)
Phys(k) == IF k = "G" THEN "g" ELSE k
PhysKeys == {Phys(k) : k \in Keys}

IsKeyCode(key) == key \in CharKeys

\* str(key).replace("Key.", "").lower()
KeyStrLower(key) ==
    CASE key = "Key.alt" -> "alt"
      [] key = "Key.alt_l" -> "alt_l"
      [] key = "Key.alt_r" -> "alt_r"
      [] key = "Key.ctrl" -> "ctrl"
      [] key = "Key.ctrl_l" -> "ctrl_l"
      [] key = "Key.ctrl_r" -> "ctrl_r"
      [] key = "Key.shift" -> "shift"
      [] key = "Key.shift_l" -> "shift_l"
      [] key = "Key.shift_r" -> "shift_r"
      [] key = "Key.esc" -> "esc"
      [] key = "Key.f1" -> "f1"
      [] key = "Key.enter" -> "enter"
      [] key = "Key.tab" -> "tab"
      [] OTHER -> Lower(key)

\* special_map of _decode_key_precise
DecodeSpecial == {"Key.enter", "Key.space", "Key.tab", "Key.backspace", "Key.esc"}
DecodeSpecialName(key) ==
    CASE key = "Key.enter" -> "enter"
      [] key = "Key.space" -> "space"
      [] key = "Key.tab" -> "tab"
      [] key = "Key.backspace" -> "backspace"
      [] key = "Key.esc" -> "escape"

FunctionKeys == {"Key.f1", "Key.f2"}
FunctionKeyName(key) == IF key = "Key.f1" THEN "f1" ELSE "f2"

mod_names == {"alt", "control", "shift", "meta", "super", "win"}

AnyIn(ks, keys) == ks \cap keys # {}

_decode_key_precise(keys, key) ==
    LET alt == AnyIn(AltKeys, keys)
        ctrl == AnyIn(CtrlKeys, keys)
        shift == AnyIn(ShiftKeys, keys)
        name == IF IsKeyCode(key) THEN Lower(key)
                ELSE IF key \in DecodeSpecial THEN DecodeSpecialName(key)
                ELSE IF key \in FunctionKeys THEN FunctionKeyName(key)
                ELSE KeyStrLower(key)
    IN  [name |-> name, alt |-> alt, ctrl |-> ctrl, shift |-> shift]

_stable_name_for_sets(key_name) == key_name

\* string.printable without the whitespace controls, on one-character names
PrintableChars == {"g", "G", "b", "1", ",", " "}
_is_printable_char(key_name) == key_name \in PrintableChars

_normalize_printable_char(key_name) == key_name

_map_key_for_xdotool(k) ==
    CASE k = "enter" -> "Return"
      [] k = "space" -> "space"
      [] k = "tab" -> "Tab"
      [] k = "backspace" -> "BackSpace"
      [] k = "f1" -> "F1"
      [] k = "f2" -> "F2"
      [] OTHER -> k

\* special_map of on_release: the decode map plus the modifiers
ReleaseSpecial == DecodeSpecial \cup ModifierKeys
ReleaseSpecialName(key) ==
    IF key \in DecodeSpecial THEN DecodeSpecialName(key)
    ELSE IF key \in ShiftKeys THEN "shift"
    ELSE IF key \in CtrlKeys THEN "control"
    ELSE "alt"

ReleaseStableName(key) ==
    IF IsKeyCode(key) THEN _stable_name_for_sets(Lower(key))
    ELSE IF key \in ReleaseSpecial THEN ReleaseSpecialName(key)
    ELSE _stable_name_for_sets(KeyStrLower(key))

\* --------------------------------------------------------------- state
VARIABLES
    wins,               \* CoreController.wins: the managed window sequence
    focus,              \* the window the window manager has focused
    running,            \* CoreController.running
    current_keys,       \* CoreController.current_keys (key objects)
    pressed_names,      \* CoreController.pressed_names (stable names)
    inhibit_keys,       \* CoreController.inhibit_keys
    broadcast_enabled,  \* config["broadcast_enabled"]
    shortcuts,          \* config["shortcuts"]
    action_map,         \* ShortcutHandler._action_map
    window_indices,     \* ShortcutHandler._window_indices
    suppress_events,    \* CoreController._suppress_events
    enabled,            \* Broadcaster._enabled
    mode,               \* Broadcaster._mode
    pc,                 \* where the listener thread is: idle, send, sweep, raised
    send,               \* the Broadcaster call in progress
    sweep,              \* locals of _send_*_focus_sweep: active, next index
    injq,               \* injected key events the listener has not been handed yet
    held,               \* physical keys the user holds down
    out,                \* what the latest listener callback did
    hold,               \* the latest physical hold of a non-modifier key
    trace,              \* the visits of the latest send: target, window that got it
    focus0,             \* the focused window when the latest sweep started
    listening,          \* the pynput listener thread is alive
    poller,             \* where the focus poller thread is: loop, query, done
    active_window,      \* CoreController.active_window
    grabbed,            \* CoreController._grabbed_keycodes (the combos grabbed)
    stop_pc,            \* where stop() is: no (not called), stopping, done
    os_grabs,           \* the combos the X server holds a key grab for
    last,               \* the poller's local last: the value it saw last
    rb                  \* set_config's _rebuild in progress and a match in progress

lifeVars == <<poller, active_window, grabbed, stop_pc, os_grabs, last, rb>>
cfgVars == <<inhibit_keys, broadcast_enabled, shortcuts, action_map, window_indices,
             enabled, mode, running, lifeVars>>
keyVars == <<current_keys, pressed_names, held, hold, listening>>
sendVars == <<pc, send, sweep, suppress_events, trace, focus0>>
vars == <<wins, focus, cfgVars, keyVars, sendVars, injq, out>>

\* ------------------------------------------------------- configuration
\* no match and no _rebuild in progress
NoMatch == [pc |-> "no", combo |-> << >>, allowed |-> {}, frozen |-> FALSE, wi |-> << >>]
NoTable == [am |-> << >>, wi |-> << >>]
NoRebuild == [pc |-> "idle", i |-> 0, old |-> NoTable, m |-> NoMatch]

NoShortcut == << >>

\* config["shortcuts"] values the model draws from
ShortcutsA ==
    [prev |-> NoShortcut, next |-> <<"Alt", Sep, "g">>,
     minimize_all |-> NoShortcut, close_all |-> NoShortcut,
     toggle_broadcast |-> <<"Alt", Sep, "F1">>, toggle_overlay |-> NoShortcut,
     window_keys |-> << <<"F1">> >>]

ShortcutConfigs == {ShortcutsA}

\* config["inhibit_keys"] values the model draws from
InhibitConfigs == { {}, {<<"Escape">>, <<"Control", Sep, "g">>} }

Modes == {"background", "focus_sweep"}

\* sorted(list(set(...))): the ascending sequence of a set of window ids
RECURSIVE SortedSeq(_)
SortedSeq(S) ==
    IF S = {} THEN << >>
    ELSE LET m == CHOOSE x \in S : \A y \in S : x <= y
         IN  <<m>> \o SortedSeq(S \ {m})

\* refresh_windows: the two scans merged, empty ids dropped, sorted
refresh_windows(wins1, wins2) ==
    SortedSeq({w \in (wins1 \cup wins2) : w # NoWin})

\* the inhibit set of __init__ and set_inhibit_keys
InhibitSet(keys) == {LowerStr(StripStr(k)) : k \in {x \in keys : StripStr(x) # << >>}}

Range(s) == {s[i] : i \in 1..Len(s)}

NoOut == [op |-> "none"]
NoHold == [key |-> "", calls |-> 0, clean |-> TRUE, gated |-> FALSE]
NoSend == [fn |-> "", payload |-> "", targets |-> << >>, exclude |-> NoWin,
           guarded |-> FALSE, caller |-> "", guard0 |-> 0, wins0 |-> << >>]
NoSweep == [active |-> NoWin, i |-> 1]

\* all_shortcut_combos: the combos start() tries to grab
all_shortcut_combos(am, wi) ==
    (DOMAIN am) \cup {wi[i][1] : i \in 1..Len(wi)}

\* A controller that has been constructed from a config whose shortcuts are
\* one of scs, given its windows by refresh_windows and started: nothing
\* pressed, no send in progress.
StartedWith(scs) ==
    /\ \E S \in SUBSET Windows : wins = refresh_windows(S, {})
    /\ focus \in Windows
    /\ running = TRUE
    /\ current_keys = {}
    /\ pressed_names = {}
    /\ \E ik \in InhibitConfigs : inhibit_keys = InhibitSet(ik)
    /\ broadcast_enabled \in BOOLEAN
    /\ shortcuts \in scs
    /\ action_map = RebuildActionMap(shortcuts)
    /\ window_indices = RebuildWindowIndices(shortcuts)
    /\ suppress_events = 0
    /\ enabled \in BOOLEAN
    /\ mode \in Modes
    /\ pc = "idle"
    /\ send = NoSend
    /\ sweep = NoSweep
    /\ injq = << >>
    /\ held = {}
    /\ out = NoOut
    /\ hold = NoHold
    /\ trace = << >>
    /\ focus0 = NoWin
    /\ listening = TRUE
    /\ poller = "loop"
    /\ active_window = focus
    /\ stop_pc = "no"
    /\ last = NoLast
    /\ rb = NoRebuild

Started == StartedWith(ShortcutConfigs)

\* ... with every grab of _try_grab_shortcuts granted
Init ==
    /\ Started
    /\ grabbed = all_shortcut_combos(action_map, window_indices)
    /\ os_grabs = grabbed

\* -------------------------------------------------------- x11 helpers
\* x11_utils.get_active_window: the focused window, "" when the query fails
get_active_window(ok) == IF ok THEN focus ELSE NoWin

\* x11_utils.activate_window: the focus after xdotool windowactivate, which
\* leaves the focus where it was when it fails
Activated(f, wid, ok) == IF ok THEN wid ELSE f

\* list.index
IndexOf(s, x) == CHOOSE i \in 1..Len(s) : s[i] = x

\* ------------------------------------------------- shortcut actions
\* variant: no wrap, the index stops at either end of the list
SwitchTargetNoWrap(step, active) ==
    IF wins = << >> THEN NoWin
    ELSE IF active \in Range(wins)
         THEN LET i == IndexOf(wins, active) + step
              IN  wins[IF i < 1 THEN 1 ELSE IF i > Len(wins) THEN Len(wins) ELSE i]
    ELSE wins[1]

\* switch_next / switch_prev: the window to activate (NoWin: none)
SwitchTarget(step, active) ==
    IF wins = << >> THEN NoWin
    ELSE IF active \in Range(wins)
         THEN wins[((IndexOf(wins, active) - 1 + step) % Len(wins)) + 1]
    ELSE wins[1]

\* variant: the index of a window key counted from 1
FocusIndexTargetOneBased(idx) ==
    IF 1 <= idx /\ idx <= Len(wins) THEN wins[idx] ELSE NoWin

\* focus_index: the window to activate (NoWin: none)
FocusIndexTarget(idx) ==
    IF 0 <= idx /\ idx < Len(wins) THEN wins[idx + 1] ELSE NoWin

\* the window a matched shortcut activates (NoWin: none)
DispatchTarget(matched, active2) ==
    IF matched[1] = "window" THEN FocusIndexTarget(matched[2])
    ELSE IF matched[2] = "next" THEN SwitchTarget(1, active2)
    ELSE IF matched[2] = "prev" THEN SwitchTarget(-1, active2)
    ELSE NoWin

\* ------------------------------------------------------- on_press
\* the canonical combo of a key-down: held modifiers + key name
ComboNow(dec) ==
    normalize_shortcut(Join(
        (IF dec.alt THEN <<"alt">> ELSE << >>) \o
        (IF dec.ctrl THEN <<"control">> ELSE << >>) \o
        (IF dec.shift THEN <<"shift">> ELSE << >>) \o
        <<dec.name>>))

\* line 316: the key-down is a pure modifier press
IsModifier(key_name) == key_name \in mod_names

\* variant: only an action consumes, a window-index match falls through
ConsumedActionOnly(matched) == matched # None /\ matched[1] = "action"

\* line 344: a matched shortcut consumes the key-down
Consumed(matched) == matched # None

\* variant: the inhibit set is looked up by combo only
BroadcastAllowedComboOnly(key_name, combo_now) ==
    /\ broadcast_enabled
    /\ combo_now \notin inhibit_keys

\* variant: the broadcast flag is not consulted
BroadcastAllowedAnyFlag(key_name, combo_now) ==
    /\ <<key_name>> \notin inhibit_keys
    /\ combo_now \notin inhibit_keys

\* lines 352-355: the key-down may be broadcast
BroadcastAllowed(key_name, combo_now) ==
    /\ broadcast_enabled
    /\ <<key_name>> \notin inhibit_keys
    /\ combo_now \notin inhibit_keys

\* line 358: the payload is typed as a literal
IsLiteral(dec) ==
    ~(dec.alt \/ dec.ctrl \/ dec.shift) /\ _is_printable_char(dec.name)

\* lines 370-375: the key sequence handed to send_key
KeySeq(dec) ==
    Join((IF dec.alt THEN <<"alt">> ELSE << >>) \o
         (IF dec.ctrl THEN <<"ctrl">> ELSE << >>) \o
         (IF dec.shift THEN <<"shift">> ELSE << >>) \o
         <<_map_key_for_xdotool(dec.name)>>)

\* _track_press_sets
TrackKeys(key) == current_keys \cup {key}
TrackNames(stable_name) ==
    IF stable_name # "" THEN pressed_names \cup {stable_name} ELSE pressed_names

\* What the callback saw when it was entered, for the record in out.
PressSeen(key, synth, dec) ==
    [op |-> "press", key |-> key, synth |-> synth,
     guard |-> suppress_events, name |-> dec.name,
     mods |-> (dec.alt \/ dec.ctrl \/ dec.shift),
     repeat |-> (_stable_name_for_sets(dec.name) \in pressed_names),
     matched |-> match(action_map, window_indices, ComboNow(dec)),
     inhibited |-> (<<dec.name>> \in inhibit_keys \/ ComboNow(dec) \in inhibit_keys),
     bcast |-> broadcast_enabled, running |-> running, combo |-> ComboNow(dec)]

NoDone == [active |-> NoWin, dispatch |-> None, activate |-> NoWin, call |-> None,
           active2 |-> NoWin]

\* variant: a callback that moved the focus stores the new focus
ActiveWindowFollows(aw, f) == f

\* active_window after a callback that left the focus on f: on_press and
\* the actions it dispatches (lines 203-225, 303-383) do not assign it, line
\* 294 of the poller is its only assignment after __init__
ActiveWindowAfter(aw, f) == aw

\* variant: a failed focus query lets the key-down through
FocusGateFailOpen(active) == active # NoWin /\ active \notin Range(wins)

\* lines 330-332: the key-down is consumed when the window the query
\* returned ("" when it failed) is not a managed one
FocusGate(active) == active \notin Range(wins)

\* variant: on_press does not look at the injection guard
IgnoredStoppedOnly(run, guard) == ~run

\* variant: the callback does not look at running
IgnoredGuardOnly(run, guard) == guard > 0

\* lines 304-309: the callback returns before it decodes the key
Ignored(run, guard) == ~run \/ guard > 0

\* on_press(key), up to the Broadcaster call.  Q: the outcomes (TRUE:
\* success) the focus queries and the activation of a shortcut can have.
OnPress(key, synth, Q) ==
    LET dec == _decode_key_precise(current_keys, key)
        key_name == dec.name
        stable_name == _stable_name_for_sets(key_name)
        combo_now == ComboNow(dec)
        matched == match(action_map, window_indices, combo_now)
        seen == PressSeen(key, synth, dec)
    IN
    /\ UNCHANGED <<wins, inhibit_keys, shortcuts, action_map, window_indices, mode, running,
                   poller, grabbed, stop_pc, os_grabs, last, rb>>
    /\ listening' = (listening /\ running)
    /\ IF Ignored(running, suppress_events)
       THEN /\ out' = seen @@ NoDone
            /\ UNCHANGED <<focus, current_keys, pressed_names, broadcast_enabled, enabled,
                           sendVars>>
       ELSE IF IsModifier(key_name)
       THEN /\ current_keys' = TrackKeys(key)
            /\ pressed_names' = TrackNames(stable_name)
            /\ out' = seen @@ NoDone
            /\ UNCHANGED <<focus, broadcast_enabled, enabled, sendVars>>
       ELSE IF stable_name \in pressed_names
       THEN /\ out' = seen @@ NoDone
            /\ UNCHANGED <<focus, current_keys, pressed_names, broadcast_enabled, enabled,
                           sendVars>>
       ELSE
       /\ current_keys' = TrackKeys(key)
       /\ pressed_names' = TrackNames(stable_name)
       /\ \E qok \in Q :
          LET active == get_active_window(qok) IN
          IF FocusGate(active)
          THEN /\ out' = seen @@ [NoDone EXCEPT !.active = active]
               /\ UNCHANGED <<focus, broadcast_enabled, enabled, sendVars>>
          ELSE IF Consumed(matched)
          THEN \E q2ok, aok \in Q :
               LET tgt == DispatchTarget(matched, get_active_window(q2ok))
                   toggle == matched = <<"action", "toggle_broadcast">>
               IN  /\ focus' = IF tgt # NoWin THEN Activated(focus, tgt, aok) ELSE focus
                   /\ broadcast_enabled' = IF toggle THEN ~broadcast_enabled
                                           ELSE broadcast_enabled
                   /\ enabled' = IF toggle THEN ~broadcast_enabled ELSE enabled
                   /\ out' = seen @@ [active |-> active, dispatch |-> matched,
                                      activate |-> tgt, call |-> None,
                                      active2 |-> get_active_window(q2ok)]
                   /\ UNCHANGED sendVars
          ELSE IF ~BroadcastAllowed(key_name, combo_now)
          THEN /\ out' = seen @@ [NoDone EXCEPT !.active = active]
               /\ UNCHANGED <<focus, broadcast_enabled, enabled, sendVars>>
          ELSE LET lit == IsLiteral(dec)
                   call == [fn |-> IF lit THEN "send_literal" ELSE "send_key",
                            payload |-> IF lit THEN <<_normalize_printable_char(key_name)>>
                                        ELSE KeySeq(dec),
                            targets |-> wins, exclude |-> active,
                            guarded |-> (mode = "focus_sweep"), caller |-> "on_press",
                            guard0 |-> suppress_events, wins0 |-> wins]
               IN  /\ send' = call
                   /\ pc' = "send"
                   /\ suppress_events' = IF call.guarded THEN suppress_events + 1
                                         ELSE suppress_events
                   /\ out' = seen @@ [active |-> active, dispatch |-> None,
                                      activate |-> NoWin, call |-> call,
                                      active2 |-> NoWin]
                   /\ UNCHANGED <<focus, broadcast_enabled, enabled, sweep, trace, focus0>>
    /\ active_window' = ActiveWindowAfter(active_window, focus')

\* ------------------------------------------------------- on_release
OnRelease(key, synth) ==
    /\ pressed_names' = pressed_names \ {ReleaseStableName(key)}
    /\ current_keys' = current_keys \ {key}
    /\ out' = [op |-> "release", key |-> key, synth |-> synth]
    /\ UNCHANGED <<wins, focus, cfgVars, sendVars, listening>>

\* ------------------------------------------------------ Broadcaster
\* the targets a send still has to visit from index i on: exclude skipped
Skips(wid, exclude) == exclude # NoWin /\ wid = exclude

\* variant: the loop does not skip the excluded window
NextTargetNoSkip(targets, exclude, i) == i

RECURSIVE NextTarget(_, _, _)
NextTarget(targets, exclude, i) ==
    IF i > Len(targets) THEN i
    ELSE IF Skips(targets[i], exclude) THEN NextTarget(targets, exclude, i + 1)
    ELSE i

\* the key events one successful focus-sweep injection makes the X server
\* report to the listener: the key's press and release
PayloadKey(payload) ==
    LET k == payload[Len(payload)]
    IN  CASE k = "escape" -> "Key.esc"
          [] k = "F1" -> "Key.f1"
          [] k = "alt_r" -> "Key.alt_r"
          [] k = "ctrl" -> "Key.ctrl"
          [] OTHER -> k

Injected(payload) ==
    << [t |-> "down", key |-> PayloadKey(payload)],
       [t |-> "up", key |-> PayloadKey(payload)] >>

\* injection_guard's finally
GuardRelease(n) == IF n - 1 > 0 THEN n - 1 ELSE 0

Released(call) == IF call.guarded THEN GuardRelease(suppress_events) ELSE suppress_events

\* variant: the background loop stops at the first attempt that fails
RECURSIVE BackgroundTraceAbort(_, _, _)
BackgroundTraceAbort(targets, exclude, oks) ==
    IF targets = << >> THEN << >>
    ELSE IF Skips(Head(targets), exclude)
         THEN BackgroundTraceAbort(Tail(targets), exclude, oks)
    ELSE IF Head(targets) \in oks
         THEN << [t |-> Head(targets), got |-> Head(targets), act |-> FALSE] >>
              \o BackgroundTraceAbort(Tail(targets), exclude, oks)
    ELSE << [t |-> Head(targets), got |-> NoWin, act |-> FALSE] >>

\* _send_*_background: one injection attempt per target that is not
\* excluded, addressed at the target; oks are the targets whose attempt succeeds
RECURSIVE BackgroundTrace(_, _, _)
BackgroundTrace(targets, exclude, oks) ==
    IF targets = << >> THEN << >>
    ELSE (IF Skips(Head(targets), exclude) THEN << >>
          ELSE << [t |-> Head(targets),
                   got |-> IF Head(targets) \in oks THEN Head(targets) ELSE NoWin,
                   act |-> FALSE] >>)
         \o BackgroundTrace(Tail(targets), exclude, oks)

\* What a send did, for the record in out when it ends.
Sent(how, tr, raised, restored) ==
    [op |-> "sent", how |-> how, call |-> send, trace |-> tr, raised |-> raised,
     focus0 |-> IF how = "focus_sweep" THEN focus0 ELSE focus,
     snapshot |-> sweep.active, restored |-> restored, enabled |-> enabled]

\* variant: the background loop activates each target before injecting
BackgroundFocusActivates(f, targets, exclude) ==
    LET ts == SelectSeq(targets, LAMBDA w : ~Skips(w, exclude))
    IN  IF ts = << >> THEN f ELSE ts[Len(ts)]

\* the focus after _send_*_background: the injections are addressed at the
\* targets with --window, no window is activated
BackgroundFocus(f, targets, exclude) == f

\* variant: a disabled Broadcaster still sends
NoOpPayloadOnly(on, payload) == payload = << >>

\* lines 40-41, 48-49: the early return of send_key / send_literal
NoOp(on, payload) == ~on \/ payload = << >>

\* send_key / send_literal entered: the no-op return, the whole background
\* send, or the start of a focus sweep (snapshot of the focus, qok: the
\* query succeeds)
SendStart(qok, oks) ==
    /\ pc = "send"
    /\ IF NoOp(enabled, send.payload)
       THEN /\ pc' = "idle"
            /\ suppress_events' = Released(send)
            /\ send' = NoSend
            /\ out' = Sent("noop", << >>, FALSE, FALSE)
            /\ UNCHANGED <<focus, sweep, focus0, trace>>
       ELSE IF mode = "background"
       THEN /\ pc' = "idle"
            /\ suppress_events' = Released(send)
            /\ send' = NoSend
            /\ focus' = BackgroundFocus(focus, send.targets, send.exclude)
            /\ out' = Sent("background",
                           BackgroundTrace(send.targets, send.exclude, oks), FALSE, FALSE)
            /\ UNCHANGED <<sweep, focus0, trace>>
       ELSE /\ pc' = "sweep"
            /\ sweep' = [active |-> get_active_window(qok), i |-> 1]
            /\ focus0' = focus
            /\ out' = NoOut
            /\ UNCHANGED <<focus, suppress_events, send, trace>>
    /\ UNCHANGED <<wins, cfgVars, keyVars, injq>>

\* one turn of the sweep's loop: focus the next target that is not excluded,
\* then inject at whatever has the focus (aok: the activation succeeds, iok:
\* the injection succeeds; a failed injection raises out of the loop)
SweepVisit(aok, iok) ==
    /\ pc = "sweep"
    /\ LET i == NextTarget(send.targets, send.exclude, sweep.i)
       IN  /\ i <= Len(send.targets)
           /\ focus' = Activated(focus, send.targets[i], aok)
           /\ trace' = Append(trace, [t |-> send.targets[i],
                                      got |-> IF iok THEN focus' ELSE NoWin,
                                      act |-> aok])
           /\ sweep' = [sweep EXCEPT !.i = i + 1]
           /\ pc' = IF iok THEN "sweep" ELSE "raised"
           /\ injq' = IF iok /\ Len(injq) + 2 <= MaxInjQ
                      THEN injq \o Injected(send.payload) ELSE injq
    /\ out' = NoOut
    /\ UNCHANGED <<wins, cfgVars, keyVars, send, suppress_events, focus0>>

\* variant: the restore follows the loop without try/finally, a raise skips it
RestoresNoFinally(active, raised) == active # NoWin /\ ~raised

\* lines 99-100, 119-120: the finally restores when there is a snapshot
Restores(active, raised) == active # NoWin

\* variant: on_press catches what the send raises
CallbackAlwaysReturns(raised, caller) == TRUE

\* on_press has no try around the send (lines 362-366, 378-382): what the
\* sweep raises leaves the callback, and the listener thread ends with it
CallbackReturns(raised, caller) == ~(raised /\ caller = "on_press")

\* variant: injection_guard without try/finally, a raise skips the decrement
LeavesGuardNoFinally(raised) == ~raised

\* injection_guard, lines 64-67: the decrement is in a finally, it runs
\* whether the body returned or raised
LeavesGuard(raised) == TRUE

\* the sweep's finally (after the last target or after a raise): restore the
\* snapshotted focus when there is one, then leave the injection guard; a
\* raise then goes up to the caller, the injection guard's finally on the way
SweepRestore(aok) ==
    /\ \/ pc = "raised"
       \/ pc = "sweep" /\ NextTarget(send.targets, send.exclude, sweep.i) > Len(send.targets)
    /\ focus' = IF Restores(sweep.active, pc = "raised")
                THEN Activated(focus, sweep.active, aok)
                ELSE focus
    /\ suppress_events' = IF LeavesGuard(pc = "raised") THEN Released(send)
                           ELSE suppress_events
    /\ pc' = "idle"
    /\ out' = Sent("focus_sweep", trace, pc = "raised", aok)
    /\ send' = NoSend
    /\ sweep' = NoSweep
    /\ trace' = << >>
    /\ focus0' = NoWin
    /\ listening' = (listening /\ CallbackReturns(pc = "raised", send.caller))
    /\ UNCHANGED <<wins, cfgVars, current_keys, pressed_names, held, hold, injq>>

\* ------------------------------------------------- the key listener
\* The listener hands a key-down to on_press when its thread is free, or
\* while a guarded send is in progress (the callback then returns at once).
CanPress == pc = "idle" \/ suppress_events > 0

PhysModifiers == {Phys(k) : k \in ModifierKeys \cap Keys}

Calls(o) == IF o.op = "press" /\ o.call # None THEN 1 ELSE 0

\* the key-down went as far as the focus test of lines 330-332 and returned
\* there, the focus being on a window that is not a managed one
Gated(o) ==
    /\ o.op = "press" /\ o.running /\ o.guard = 0
    /\ o.name \notin mod_names /\ ~o.repeat
    /\ o.active # NoWin /\ o.active \notin Range(wins)

\* the user presses a key that is up; the record of the hold notes, when
\* gate is set, whether this first key-down stopped at the focus test
PressOf(key, Q, gate) ==
    /\ listening
    /\ Phys(key) \notin held
    /\ Cardinality(held) < MaxHeld
    /\ CanPress
    /\ OnPress(key, FALSE, Q)
    /\ held' = held \cup {Phys(key)}
    /\ hold' = IF Phys(key) \in PhysModifiers
               THEN [hold EXCEPT !.clean = FALSE]
               ELSE [key |-> Phys(key), calls |-> Calls(out'),
                     clean |-> (held \cap PhysModifiers = {}),
                     gated |-> (gate /\ Gated(out'))]
    /\ UNCHANGED injq

PhysPress(key, Q) == PressOf(key, Q, FALSE)
PhysPressGate(key, Q) == PressOf(key, Q, TRUE)

\* the keyboard's auto-repeat: another key-down of the key being held
Repeat(key, Q) ==
    /\ listening
    /\ Phys(key) \in held
    /\ hold.key = Phys(key)
    /\ hold.calls < MaxHoldCalls
    /\ CanPress
    /\ OnPress(key, FALSE, Q)
    /\ hold' = [hold EXCEPT !.calls = @ + Calls(out')]
    /\ UNCHANGED <<held, injq>>

\* the user lets a held key go
PhysRelease(key) ==
    /\ listening
    /\ Phys(key) \in held
    /\ OnRelease(key, FALSE)
    /\ held' = held \ {Phys(key)}
    /\ hold' = IF hold.key = Phys(key) THEN NoHold ELSE hold
    /\ UNCHANGED injq

\* the listener is handed the oldest injected event
DeliverInjected(Q) ==
    /\ listening
    /\ injq # << >>
    /\ IF Head(injq).t = "down"
       THEN CanPress /\ OnPress(Head(injq).key, TRUE, Q)
       ELSE OnRelease(Head(injq).key, TRUE)
    /\ injq' = Tail(injq)
    /\ UNCHANGED <<held, hold>>

\* -------------------------------------------------- other callers
\* the user (or the window manager) moves the focus
UserFocus(w) ==
    /\ focus # w
    /\ focus' = w
    /\ out' = NoOut
    /\ UNCHANGED <<wins, cfgVars, keyVars, sendVars, injq>>

set_broadcast_enabled(b) ==
    /\ broadcast_enabled' = b
    /\ enabled' = b
    /\ out' = NoOut
    /\ UNCHANGED <<wins, focus, inhibit_keys, shortcuts, action_map, window_indices,
                   mode, running, lifeVars, keyVars, sendVars, injq>>

set_inhibit_keys(keys) ==
    /\ inhibit_keys' = InhibitSet(keys)
    /\ out' = NoOut
    /\ UNCHANGED <<wins, focus, broadcast_enabled, shortcuts, action_map, window_indices,
                   enabled, mode, running, lifeVars, keyVars, sendVars, injq>>

set_mode(m) ==
    /\ mode' = IF m \in Modes THEN m ELSE mode
    /\ out' = NoOut
    /\ UNCHANGED <<wins, focus, inhibit_keys, broadcast_enabled, shortcuts, action_map,
                   window_indices, enabled, running, lifeVars, keyVars, sendVars, injq>>

\* another caller of the Broadcaster's public API: send_key / send_literal
\* called directly, outside on_press and its injection guard
CallSend(fn, payload, exclude) ==
    /\ pc = "idle"
    /\ send' = [fn |-> fn, payload |-> payload, targets |-> wins,
                exclude |-> exclude, guarded |-> FALSE, caller |-> "api",
                guard0 |-> suppress_events, wins0 |-> wins]
    /\ pc' = "send"
    /\ out' = NoOut
    /\ UNCHANGED <<wins, focus, cfgVars, keyVars, injq, sweep, suppress_events,
                   trace, focus0>>

\* variant: the rescan rewrites the list object in place
IteratedInPlace(targets, rescanned) == rescanned

\* refresh_windows, line 75: self.wins is bound to a new list; the list a
\* send in progress was handed (targets, the old object) keeps its items
Iterated(targets, rescanned) == targets

\* refresh_windows called by the GUI thread at any time with the results of
\* its two scans (lists of window ids)
Rescan(wins1, wins2) ==
    /\ wins' = refresh_windows(Range(wins1), Range(wins2))
    /\ send' = IF pc = "idle" THEN send
               ELSE [send EXCEPT !.targets = Iterated(@, wins')]
    /\ out' = NoOut
    /\ UNCHANGED <<focus, cfgVars, keyVars, injq, pc, sweep, suppress_events, trace, focus0>>

\* reparse_shortcuts, after the GUI has written config["shortcuts"]: a new
\* ShortcutHandler is built from the config
\* A match in progress runs on the handler object it was called on: when
\* reparse_shortcuts replaces the handler, that match goes on with the
\* tables of the old object; the new handler's answer is a complete one too.
Detached(r, sc) ==
    IF r.m.pc = "scan" /\ ~r.m.frozen
    THEN [r EXCEPT !.m.frozen = TRUE, !.m.wi = window_indices,
                   !.m.allowed = @ \cup {match(RebuildActionMap(sc),
                                               RebuildWindowIndices(sc), r.m.combo)}]
    ELSE r

reparse_shortcuts(sc, edited) ==
    /\ pc = "idle"
    /\ rb.pc = "idle"
    /\ shortcuts' = sc
    /\ action_map' = RebuildActionMap(sc)
    /\ window_indices' = RebuildWindowIndices(sc)
    /\ rb' = Detached(rb, sc)
    /\ out' = [op |-> "reparse", spec |-> edited, norm |-> normalize_shortcut(edited)]
    /\ UNCHANGED <<wins, focus, inhibit_keys, broadcast_enabled, enabled, mode, running,
                   poller, active_window, grabbed, stop_pc, os_grabs, last,
                   keyVars, sendVars, injq>>

\* what set_config and match leave alone
tableFrame == <<wins, focus, inhibit_keys, broadcast_enabled, enabled, mode, running,
                poller, active_window, grabbed, stop_pc, os_grabs, last,
                keyVars, sendVars, injq>>

\* ShortcutHandler.set_config on the handler in use, up to line 74 of
\* _rebuild: the config is stored and the action table replaced by an empty
\* dict; the window list is still the old one
set_config(sc) ==
    /\ rb.pc = "idle"
    /\ shortcuts' = sc
    /\ action_map' = [c \in {} |-> ""]
    /\ rb' = [rb EXCEPT !.pc = "actions", !.i = 1,
                        !.old = [am |-> action_map, wi |-> window_indices],
                        !.m.allowed = IF rb.m.pc = "scan" /\ ~rb.m.frozen
                                      THEN @ \cup {match(RebuildActionMap(sc),
                                                         RebuildWindowIndices(sc),
                                                         rb.m.combo)}
                                      ELSE @]
    /\ out' = NoOut
    /\ UNCHANGED <<window_indices, tableFrame>>

\* _rebuild, one statement of its two loops (lines 75-79, 82-87): an action
\* key stored, the window list replaced by an empty one, a window key
\* appended, or the end
rebuild_step ==
    /\ rb.pc \in {"actions", "windows"}
    /\ IF rb.pc = "actions" /\ rb.i <= Len(ActionKeys)
       THEN /\ action_map' =
                  LET combo == normalize_shortcut(shortcuts[ActionKeys[rb.i]])
                  IN  IF combo # << >>
                      THEN [c \in DOMAIN action_map \cup {combo} |->
                               IF c = combo THEN ActionKeys[rb.i] ELSE action_map[c]]
                      ELSE action_map
            /\ rb' = [rb EXCEPT !.i = @ + 1]
            /\ UNCHANGED window_indices
       ELSE IF rb.pc = "actions"
       THEN /\ window_indices' = << >>
            /\ rb' = [rb EXCEPT !.pc = "windows", !.i = 1]
            /\ UNCHANGED action_map
       ELSE IF rb.i <= Len(shortcuts.window_keys)
       THEN /\ window_indices' =
                  window_indices \o
                  (LET norm == normalize_shortcut(shortcuts.window_keys[rb.i])
                   IN  IF norm # << >> THEN << <<norm, rb.i - 1>> >> ELSE << >>)
            /\ rb' = [rb EXCEPT !.i = @ + 1]
            /\ UNCHANGED action_map
       ELSE /\ rb' = [rb EXCEPT !.pc = "idle", !.i = 0, !.old = NoTable]
            /\ UNCHANGED <<action_map, window_indices>>
    /\ out' = NoOut
    /\ UNCHANGED <<shortcuts, tableFrame>>

\* the complete tables a match entered now may answer from: the table in
\* use, or during a _rebuild the one it replaces and the one it builds
CompleteTables ==
    IF rb.pc = "idle" THEN {[am |-> action_map, wi |-> window_indices]}
    ELSE {rb.old, [am |-> RebuildActionMap(shortcuts),
                   wi |-> RebuildWindowIndices(shortcuts)]}

MatchDone(combo, result, allowed) ==
    [op |-> "match", combo |-> combo, result |-> result, allowed |-> allowed]

\* match called from another thread, lines 53-59: the empty combo and the
\* lookup in the action table
match_begin(combo) ==
    /\ rb.m.pc = "no"
    /\ LET allowed == {match(t.am, t.wi, combo) : t \in CompleteTables}
       IN  IF combo = << >>
           THEN /\ out' = MatchDone(combo, None, allowed)
                /\ UNCHANGED rb
           ELSE IF combo \in DOMAIN action_map /\ action_map[combo] # ""
           THEN /\ out' = MatchDone(combo, <<"action", action_map[combo]>>, allowed)
                /\ UNCHANGED rb
           ELSE /\ rb' = [rb EXCEPT !.m = [pc |-> "scan", combo |-> combo,
                                           allowed |-> allowed, frozen |-> FALSE,
                                           wi |-> << >>]]
                /\ out' = NoOut
    /\ UNCHANGED <<shortcuts, action_map, window_indices, tableFrame>>

\* match, lines 62-66: the scan of the window list of its handler
match_scan ==
    /\ rb.m.pc = "scan"
    /\ out' = MatchDone(rb.m.combo,
                        MatchWindow(IF rb.m.frozen THEN rb.m.wi ELSE window_indices,
                                    1, rb.m.combo),
                        rb.m.allowed)
    /\ rb' = [rb EXCEPT !.m = NoMatch]
    /\ UNCHANGED <<shortcuts, action_map, window_indices, tableFrame>>

\* ---------------------------------------------- the focus poller, stop
setVars == <<inhibit_keys, broadcast_enabled, shortcuts, action_map, window_indices,
             enabled, mode>>

\* run(), line 290: the loop's test of running
PollCheck ==
    /\ poller = "loop"
    /\ poller' = IF running THEN "query" ELSE "done"
    /\ out' = NoOut
    /\ UNCHANGED <<wins, focus, setVars, running, active_window, grabbed, stop_pc, os_grabs,
                   last, rb,
                   keyVars, sendVars, injq>>

\* variant: the poller notifies at every poll
NotifiesAlways(cur, seen) == TRUE

\* line 292: the poller acts only when the value differs from the last one
Notifies(cur, seen) == cur # seen

\* run(), lines 291-296: one query of the focus (ok: it succeeds; a failed
\* one gives ""); on a change last and active_window are set and
\* update_overlay_visibility is scheduled; then sleep
PollQuery(ok) ==
    /\ poller = "query"
    /\ LET cur == get_active_window(ok)
           notify == Notifies(cur, last)
       IN  /\ last' = IF notify THEN cur ELSE last
           /\ active_window' = IF notify THEN cur ELSE active_window
           /\ out' = [op |-> "poll", ok |-> ok, cur |-> cur, seen |-> last,
                      before |-> active_window, notified |-> notify]
    /\ poller' = "loop"
    /\ UNCHANGED <<wins, focus, setVars, running, grabbed, stop_pc, os_grabs, rb,
                   keyVars, sendVars, injq>>

\* stop(), line 262
stop_begin ==
    /\ stop_pc = "no"
    /\ running' = FALSE
    /\ stop_pc' = "stopping"
    /\ out' = NoOut
    /\ UNCHANGED <<wins, focus, setVars, poller, active_window, grabbed, os_grabs, last, rb,
                   keyVars, sendVars, injq>>

\* the grabs the X server still holds after _ungrab_shortcuts and the close
\* of the display at the end of stop(): an ungrab_key that fails (failed)
\* leaves its grab, a display that closes (closed) ends them all
StillGrabbed(grabs, failed, closed) == IF closed THEN {} ELSE grabs \cap failed

\* stop(), lines 263-284: the listener is stopped, every recorded grab is
\* ungrabbed (failures swallowed) and the record emptied, the display closed
\* (failure swallowed)
stop_end(failed, closed) ==
    /\ stop_pc = "stopping"
    /\ listening' = FALSE
    /\ grabbed' = {}
    /\ os_grabs' = StillGrabbed(os_grabs, failed, closed)
    /\ stop_pc' = "done"
    /\ UNCHANGED <<wins, focus, setVars, running, poller, active_window, last, rb,
                   current_keys, pressed_names, held, hold, sendVars, injq, out>>

\* the ungrab calls that can fail in one stop()
UngrabFailures == {F \in SUBSET grabbed : Cardinality(F) <= MaxUngrabFailures}

\* switch_next / switch_prev called directly (qok: the focus query succeeds,
\* aok: the activation succeeds).  The record in out also keeps the run of
\* consecutive switch calls this call belongs to: the focus the run started
\* from, its steps, and whether every query and every activation of the run
\* succeeded.
SwitchRun(step, qok, aok) ==
    IF out.op = "switch" /\ Len(out.steps) < MaxWin
    THEN [start |-> out.start, steps |-> Append(out.steps, step),
          queries |-> (out.queries /\ qok), acts |-> (out.acts /\ aok)]
    ELSE [start |-> focus, steps |-> <<step>>, queries |-> qok, acts |-> aok]

Switch(step, qok, aok) ==
    LET active == get_active_window(qok)
        tgt == SwitchTarget(step, active)
    IN  /\ pc = "idle"
        /\ focus' = IF tgt # NoWin THEN Activated(focus, tgt, aok) ELSE focus
        /\ out' = [op |-> "switch", step |-> step, before |-> focus,
                   active |-> active, target |-> tgt] @@ SwitchRun(step, qok, aok)
        /\ UNCHANGED <<wins, cfgVars, keyVars, sendVars, injq>>

switch_next(qok, aok) == Switch(1, qok, aok)
switch_prev(qok, aok) == Switch(-1, qok, aok)

\* injection_guard entered and left by another caller of the controller,
\* between two callbacks (line 63, line 67)
injection_guard_enter ==
    /\ pc = "idle"
    /\ suppress_events < MaxGuard
    /\ suppress_events' = suppress_events + 1
    /\ out' = NoOut
    /\ UNCHANGED <<wins, focus, cfgVars, keyVars, injq, pc, send, sweep, trace, focus0>>

injection_guard_exit ==
    /\ pc = "idle"
    /\ suppress_events > 0
    /\ suppress_events' = GuardRelease(suppress_events)
    /\ out' = NoOut
    /\ UNCHANGED <<wins, focus, cfgVars, keyVars, injq, pc, send, sweep, trace, focus0>>

\* ------------------------------------------------------ specifications
\* pynput's Listener calls on_press and on_release from one thread, one
\* event at a time: a callback, the send it makes included, has returned
\* before the next event is handed over.
Idle == pc = "idle"

Ok == {TRUE}
OkOrFail == BOOLEAN

\* Spec, the keyboard: five keys, two managed windows and one that is not,
\* the focus on the first managed window at the start;
\* a focus query or the activation of a shortcut may fail, the X calls of a
\* send succeed.  The user moving the focus and the GUI setting the
\* broadcast flag run at any time; the inhibit list, which only on_press
\* reads, and the mode are set between two callbacks.
KeysTyped == {"g", "Key.alt", "Key.ctrl", "Key.esc", "Key.f1"}

InitKeys ==
    /\ Init
    /\ wins = <<1, 2>>
    /\ focus = 1

NextKeys ==
    \/ \E key \in KeysTyped : Idle /\ PhysPress(key, OkOrFail)
    \/ \E key \in KeysTyped : Idle /\ Repeat(key, OkOrFail)
    \/ \E key \in KeysTyped : Idle /\ PhysRelease(key)
    \/ Idle /\ DeliverInjected(OkOrFail)
    \/ \E oks \in {Windows} : SendStart(TRUE, oks)
    \/ SweepVisit(TRUE, TRUE)
    \/ SweepRestore(TRUE)
    \/ \E w \in Windows : UserFocus(w)
    \/ \E b \in BOOLEAN : set_broadcast_enabled(b)
    \/ \E keys \in InhibitConfigs : Idle /\ set_inhibit_keys(keys)
    \/ \E m \in Modes \cup {"xtest"} : Idle /\ set_mode(m)

Spec == InitKeys /\ [][NextKeys]_vars

\* SpecSend, the sends: every managed window sequence, one printable key and
\* one special key; every focus query, activation and injection may fail.
KeysSent == {"g", "Key.esc"}

NextSend ==
    \/ \E key \in KeysSent : Idle /\ PhysPress(key, OkOrFail)
    \/ \E key \in KeysSent : Idle /\ PhysRelease(key)
    \/ Idle /\ DeliverInjected(OkOrFail)
    \/ \E qok \in BOOLEAN, oks \in SUBSET Windows : SendStart(qok, oks)
    \/ \E aok, iok \in BOOLEAN : SweepVisit(aok, iok)
    \/ \E aok \in BOOLEAN : SweepRestore(aok)
    \/ \E w \in Windows : Idle /\ UserFocus(w)

SpecSend == Init /\ [][NextSend]_vars

\* SpecApi, the Broadcaster's public contract: send_key and send_literal
\* called directly with any payload and exclude, in both modes, enabled or
\* not; every focus query, activation and injection may fail.  The listener
\* is handed the key events the sweeps inject.
ApiPayloads == {<< >>, <<"g">>}

NextApi ==
    \/ \E fn \in {"send_key", "send_literal"}, payload \in ApiPayloads,
          exclude \in {NoWin} \cup Range(wins) : CallSend(fn, payload, exclude)
    \/ \E qok \in BOOLEAN, oks \in SUBSET Windows : SendStart(qok, oks)
    \/ \E aok, iok \in BOOLEAN : SweepVisit(aok, iok)
    \/ \E aok \in BOOLEAN : SweepRestore(aok)
    \/ Idle /\ DeliverInjected(OkOrFail)
    \/ \E w \in Windows : Idle /\ UserFocus(w)
    \/ \E b \in BOOLEAN : Idle /\ set_broadcast_enabled(b)
    \/ \E m \in Modes : Idle /\ set_mode(m)

SpecApi == Init /\ [][NextApi]_vars

\* SpecShortcuts, the shortcut table: the config binds next to any spelling
\* of a combo (its modifiers in any order, either casing of each token) or to
\* a string that is no combo; the GUI reparses the config, or rewrites prev
\* or the window keys and reparses; the user types g and F1, with or
\* without Alt.
Mods == {"alt", "control", "shift"}
KeyTokens == {"f1", "g"}
MaxMods == 3

\* the two spellings of a token a user writes
Cased(tok, c) ==
    CASE tok = "alt" -> IF c = 1 THEN "Alt" ELSE "ALT"
      [] tok = "control" -> IF c = 1 THEN "Control" ELSE "CONTROL"
      [] tok = "shift" -> IF c = 1 THEN "Shift" ELSE "shift"
      [] tok = "f1" -> IF c = 1 THEN "F1" ELSE "f1"
      [] tok = "g" -> IF c = 1 THEN "G" ELSE "g"

\* the orders a set of distinct modifiers can be written in
ModOrders ==
    {ms \in UNION {[1..n -> Mods] : n \in 0..MaxMods} :
        \A i, j \in 1..Len(ms) : i # j => ms[i] # ms[j]}

Casings(ms) == [1..(Len(ms) + 1) -> {1, 2}]

\* the string "M1+M2+...+key" in the casing cs
Spelled(ms, cs, key) ==
    Join([i \in 1..(Len(ms) + 1) |->
             IF i <= Len(ms) THEN Cased(ms[i], cs[i]) ELSE Cased(key, cs[i])])

ComboSpecs ==
    {Spelled(ms, cs, key) : ms \in ModOrders, cs \in [1..(MaxMods + 1) -> {1, 2}], key \in KeyTokens}

\* strings that are not modifiers followed by one key token: empty, blank,
\* separators only, a modifier without a key, an unknown modifier
NoComboSpecs ==
    { << >>, <<" ">>, <<Sep>>, <<Sep, Sep>>, <<" ", Sep, " ">>,
      <<"Alt">>, <<"Alt", Sep>>, <<"Alt", Sep, "Shift">>, <<"Super", Sep, "g">> }

\* the other bindings the GUI writes: prev and the window keys, some of them
\* repeating a combo
PrevSpecs == { << >>, <<"Alt", Sep, "g">>, <<"F1">> }
WindowKeySpecs == { << <<"F1">> >>, << <<"F1">>, <<"f1">> >>, << <<"g">>, <<"ALT", Sep, "G">> >> }

KeysShortcuts == {"g", "Key.alt", "Key.f1"}

InitShortcuts ==
    /\ StartedWith({[ShortcutsA EXCEPT !.next = spec] :
                       spec \in ComboSpecs \cup NoComboSpecs})
    /\ grabbed = all_shortcut_combos(action_map, window_indices)
    /\ os_grabs = grabbed
    /\ wins = <<1, 2>>
    /\ focus = 1
    /\ inhibit_keys = {}
    /\ mode = "background"
    /\ broadcast_enabled /\ enabled

\* the GUI is used with no key held, and rewrites prev or the window keys
\* of a config that still has the other bindings of ShortcutsA
EditsOnly(field) ==
    /\ held = {}
    /\ \A f \in {"prev", "next", "window_keys"} \ {field} :
          field # "next" => shortcuts[f] = ShortcutsA[f]

NextShortcuts ==
    \/ /\ EditsOnly("next")
       /\ reparse_shortcuts(shortcuts, shortcuts.next)
    \/ \E spec \in PrevSpecs :
          /\ EditsOnly("prev")
          /\ reparse_shortcuts([shortcuts EXCEPT !.prev = spec], spec)
    \/ \E wk \in WindowKeySpecs :
          /\ EditsOnly("window_keys")
          /\ reparse_shortcuts([shortcuts EXCEPT !.window_keys = wk], wk[Len(wk)])
    \/ \E key \in KeysShortcuts : Idle /\ PhysPress(key, Ok)
    \/ \E key \in KeysShortcuts : Idle /\ PhysRelease(key)
    \/ \E oks \in {Windows} : SendStart(TRUE, oks)

SpecShortcuts == InitShortcuts /\ [][NextShortcuts]_vars

\* SpecLife, the two background tasks and stop(): one key, two managed
\* windows, broadcasting on, any outcome of the grabs of start(), at most
\* MaxUngrabFailures failed ungrabs in stop(); every focus query,
\* activation and injection may fail; the poller and stop() run at any time.
KeysLife == {"g"}

InitLife ==
    /\ Started
    /\ wins = <<1, 2>>
    /\ inhibit_keys = {}
    /\ broadcast_enabled /\ enabled
    /\ grabbed \in SUBSET all_shortcut_combos(action_map, window_indices)
    /\ os_grabs = grabbed

Poll == PollCheck \/ \E ok \in BOOLEAN : PollQuery(ok)

Sending ==
    \/ \E qok \in BOOLEAN, oks \in SUBSET Windows : SendStart(qok, oks)
    \/ \E aok, iok \in BOOLEAN : SweepVisit(aok, iok)
    \/ \E aok \in BOOLEAN : SweepRestore(aok)

NextLife ==
    \/ \E key \in KeysLife : Idle /\ PhysPress(key, OkOrFail)
    \/ \E key \in KeysLife : Idle /\ PhysRelease(key)
    \/ Idle /\ DeliverInjected(OkOrFail)
    \/ Sending
    \/ \E w \in Windows : Idle /\ UserFocus(w)
    \/ Poll
    \/ stop_begin
    \/ \E failed \in UngrabFailures, closed \in BOOLEAN : stop_end(failed, closed)

SpecLife == InitLife /\ [][NextLife]_vars

\* the poller thread and a send in progress keep running
SpecLifeFair == SpecLife /\ WF_vars(Poll) /\ WF_vars(Sending)

\* --------------------------------------------------------------- claims
\* SpecSwitch, the window switching: every managed window sequence, next on
\* Alt+g and prev on F1, broadcasting off; switch_next and switch_prev are
\* called directly (with no key held) or by the keystroke, the user moves the
\* focus to any window, and the focus queries and the activations may fail.
ShortcutsSwitch ==
    [ShortcutsA EXCEPT !.prev = <<"F1">>, !.toggle_broadcast = NoShortcut]
KeysSwitch == {"g", "Key.alt", "Key.f1"}

InitSwitch ==
    /\ StartedWith({ShortcutsSwitch})
    /\ grabbed = all_shortcut_combos(action_map, window_indices)
    /\ os_grabs = grabbed
    /\ inhibit_keys = {}
    /\ mode = "background"
    /\ ~broadcast_enabled /\ ~enabled

NextSwitch ==
    \/ \E qok, aok \in BOOLEAN : held = {} /\ switch_next(qok, aok)
    \/ \E qok, aok \in BOOLEAN : held = {} /\ switch_prev(qok, aok)
    \/ \E key \in KeysSwitch : Idle /\ PhysPress(key, OkOrFail)
    \/ \E key \in KeysSwitch : Idle /\ PhysRelease(key)
    \/ \E w \in Windows : Idle /\ UserFocus(w)

SpecSwitch == InitSwitch /\ [][NextSwitch]_vars

\* SpecGuard, the injection guard seen by the listener: two managed windows
\* and one that is not, broadcasting on; the guard is entered and left
\* between callbacks while the user types g and F1 with or without Alt and
\* moves the focus; the sends succeed.
KeysGuard == {"g", "Key.alt", "Key.f1"}

InitGuard ==
    /\ Init
    /\ wins = <<1, 2>>
    /\ focus = 1
    /\ inhibit_keys = {}
    /\ broadcast_enabled /\ enabled

NextGuard ==
    \/ injection_guard_enter
    \/ injection_guard_exit
    \/ \E key \in KeysGuard : Idle /\ PhysPress(key, Ok)
    \/ \E key \in KeysGuard : Idle /\ PhysRelease(key)
    \/ Idle /\ DeliverInjected(Ok)
    \/ \E oks \in {Windows} : SendStart(TRUE, oks)
    \/ SweepVisit(TRUE, TRUE)
    \/ SweepRestore(TRUE)
    \/ \E w \in Windows : Idle /\ UserFocus(w)

SpecGuard == InitGuard /\ [][NextGuard]_vars

\* SpecGate, the focus gate: two managed windows and one that is not,
\* broadcasting on in background mode; the user moves the focus and types g
\* (caps lock off or on) and F1 while the poller keeps active_window up to date at its own pace;
\* the focus queries of on_press and of the poller may fail.
KeysGate == {"g", "G", "Key.f1"}

InitGate ==
    /\ Init
    /\ wins = <<1, 2>>
    /\ inhibit_keys = {}
    /\ mode = "background"
    /\ broadcast_enabled /\ enabled

NextGate ==
    \/ \E key \in KeysGate : Idle /\ PhysPress(key, OkOrFail)
    \/ \E key \in KeysGate : Idle /\ PhysRelease(key)
    \/ \E oks \in {Windows} : SendStart(TRUE, oks)
    \/ \E w \in Windows : Idle /\ UserFocus(w)
    \/ Poll

SpecGate == InitGate /\ [][NextGate]_vars

\* SpecRebuild, the shortcut table under concurrent use: the GUI thread
\* replaces the handler (reparse_shortcuts) or rebuilds it in place
\* (set_config) with one of three configs while another thread matches the
\* combos of those configs.
RebuildConfigs ==
    {ShortcutsA, [ShortcutsA EXCEPT !.window_keys = << <<"g">>, <<"ALT", Sep, "G">> >>],
     [ShortcutsA EXCEPT !.next = <<"F1">>]}
RebuildCombos == {<< >>, <<"alt", Sep, "g">>, <<"f1">>, <<"g">>}

InitRebuild ==
    /\ Init
    /\ wins = <<1, 2>>
    /\ focus = 1
    /\ inhibit_keys = {}
    /\ mode = "background"
    /\ broadcast_enabled /\ enabled

NextRebuild ==
    \/ \E sc \in RebuildConfigs : set_config(sc)
    \/ rebuild_step
    \/ \E sc \in RebuildConfigs : reparse_shortcuts(sc, sc.next)
    \/ \E combo \in RebuildCombos : match_begin(combo)
    \/ match_scan

SpecRebuild == InitRebuild /\ [][NextRebuild]_vars

\* SpecIndex, the window keys: every managed window sequence of up to three
\* windows, window_keys with an empty entry between two bound ones or with
\* a modified combo, broadcasting on in background mode; the user moves the
\* focus and types g and F1 with or without Alt and Shift.
ShortcutsIndex ==
    {[ShortcutsA EXCEPT !.window_keys = << <<"F1">>, << >>, <<"g">> >>],
     [ShortcutsA EXCEPT !.window_keys = << <<"G">>, <<"Shift", Sep, "Alt", Sep, "F1">> >>,
                        !.toggle_broadcast = NoShortcut]}
KeysIndex == {"g", "Key.alt", "Key.shift", "Key.f1"}

InitIndex ==
    /\ StartedWith(ShortcutsIndex)
    /\ grabbed = all_shortcut_combos(action_map, window_indices)
    /\ os_grabs = grabbed
    /\ inhibit_keys = {}
    /\ mode = "background"
    /\ broadcast_enabled /\ enabled

NextIndex ==
    \/ \E key \in KeysIndex : Idle /\ PhysPress(key, OkOrFail)
    \/ \E key \in KeysIndex : Idle /\ PhysRelease(key)
    \/ \E oks \in {Windows} : SendStart(TRUE, oks)
    \/ \E w \in Windows : Idle /\ UserFocus(w)

SpecIndex == InitIndex /\ [][NextIndex]_vars

\* SpecRescan, the window list under rescans: every managed window
\* sequence, broadcasting on in focus-sweep mode; the user types g and moves
\* the focus, the GUI rescans at any time, also while a sweep is running;
\* the scans return windows in any order, a window matching both patterns,
\* an empty id; an injection may fail.
Scans1 == {<< >>, <<1>>, <<2, 1>>, <<3, 1, 2>>, <<3>>}
Scans2 == {<< >>, <<2>>, <<NoWin, 3>>, <<1, 3>>}
KeysRescan == {"g"}

InitRescan ==
    /\ Init
    /\ inhibit_keys = {}
    /\ mode = "focus_sweep"
    /\ broadcast_enabled /\ enabled

NextRescan ==
    \/ \E wins1 \in Scans1, wins2 \in Scans2 : Rescan(wins1, wins2)
    \/ \E key \in KeysRescan : Idle /\ PhysPress(key, Ok)
    \/ \E key \in KeysRescan : Idle /\ PhysRelease(key)
    \/ Idle /\ DeliverInjected(Ok)
    \/ \E oks \in {Windows} : SendStart(TRUE, oks)
    \/ \E iok \in BOOLEAN : SweepVisit(TRUE, iok)
    \/ SweepRestore(TRUE)
    \/ \E w \in Windows : Idle /\ UserFocus(w)

SpecRescan == InitRescan /\ [][NextRescan]_vars

\* SpecWriter, everything that runs beside the focus poller: two managed
\* windows and one that is not; the user types g and F1 and moves the focus, sends run in both modes, switch_next and
\* switch_prev are called directly, the GUI sets the broadcast flag, the
\* mode and the inhibit list, reparses the shortcuts and rescans the
\* windows between two callbacks; the poller runs at any time.
KeysWriter == {"g", "Key.f1"}
ScansWriter == {<<1, 2>>, <<2, 3>>}

InitWriter ==
    /\ Init
    /\ wins = <<1, 2>>
    /\ focus = 1
    /\ inhibit_keys = {}
    /\ broadcast_enabled /\ enabled

NextWriter ==
    \/ \E key \in KeysWriter : Idle /\ PhysPress(key, Ok)
    \/ \E key \in KeysWriter : Idle /\ PhysRelease(key)
    \/ Idle /\ DeliverInjected(Ok)
    \/ \E oks \in {Windows} : SendStart(TRUE, oks)
    \/ SweepVisit(TRUE, TRUE)
    \/ SweepRestore(TRUE)
    \/ \E w \in Windows : Idle /\ UserFocus(w)
    \/ held = {} /\ switch_next(TRUE, TRUE)
    \/ held = {} /\ switch_prev(TRUE, TRUE)
    \/ \E b \in BOOLEAN : Idle /\ held = {} /\ set_broadcast_enabled(b)
    \/ \E m \in Modes : Idle /\ held = {} /\ set_mode(m)
    \/ \E keys \in InhibitConfigs : Idle /\ held = {} /\ set_inhibit_keys(keys)
    \/ held = {} /\ reparse_shortcuts(shortcuts, shortcuts.next)
    \/ \E ws \in ScansWriter : Idle /\ held = {} /\ Rescan(ws, << >>)
    \/ Poll

SpecWriter == InitWriter /\ [][NextWriter]_vars

\* SpecMode, the configuration callers beside the listener: two managed
\* windows, one key; the user types g and moves the focus while the GUI
\* thread sets the Broadcaster's mode and the broadcast flag at any time,
\* also between on_press's test of the mode and the send; the X calls
\* succeed.
KeysMode == {"g"}

InitMode ==
    /\ Init
    /\ wins = <<1, 2>>
    /\ focus = 1
    /\ inhibit_keys = {}

NextMode ==
    \/ \E key \in KeysMode : Idle /\ PhysPress(key, Ok)
    \/ \E key \in KeysMode : Idle /\ PhysRelease(key)
    \/ Idle /\ DeliverInjected(Ok)
    \/ \E oks \in {Windows} : SendStart(TRUE, oks)
    \/ SweepVisit(TRUE, TRUE)
    \/ SweepRestore(TRUE)
    \/ \E w \in Windows : Idle /\ UserFocus(w)
    \/ \E m \in Modes : set_mode(m)
    \/ \E b \in BOOLEAN : set_broadcast_enabled(b)

SpecMode == InitMode /\ [][NextMode]_vars

\* SpecHold, one hold across a focus change: two managed windows and one
\* that is not, broadcasting on in focus-sweep mode; the user types g, holds
\* it (auto-repeat) and moves the focus at any time; the listener is handed
\* the key events the sweeps inject; the X calls succeed.
KeysHold == {"g"}

InitHold ==
    /\ Init
    /\ wins = <<1, 2>>
    /\ inhibit_keys = {}
    /\ mode = "focus_sweep"
    /\ broadcast_enabled /\ enabled

NextHold ==
    \/ \E key \in KeysHold : Idle /\ PhysPressGate(key, Ok)
    \/ \E key \in KeysHold : Idle /\ Repeat(key, Ok)
    \/ \E key \in KeysHold : Idle /\ PhysRelease(key)
    \/ Idle /\ DeliverInjected(Ok)
    \/ \E oks \in {Windows} : SendStart(TRUE, oks)
    \/ SweepVisit(TRUE, TRUE)
    \/ SweepRestore(TRUE)
    \/ \E w \in Windows : UserFocus(w)

SpecHold == InitHold /\ [][NextHold]_vars

Pressed == out.op = "press"
SentBy(how) == out.op = "sent" /\ out.how = how

\* C1: while a non-modifier key is held with no modifier held, the key-down
\* events of that hold (the press and its auto-repeats) make at most one
\* Broadcaster call in total.
C1_HoldBroadcastsOnce == hold.clean => hold.calls <= 1

\* C2: a key event synthesized by a focus-sweep injection, when it is handed
\* to on_press, never results in a shortcut dispatch or a Broadcaster call.
C2_InjectedNotRetriggered ==
    (Pressed /\ out.synth) => (out.call = None /\ out.dispatch = None)

\* C5: a key-down whose canonical combo matches a configured shortcut (an
\* action or a window index) never makes a Broadcaster call, whatever the
\* broadcast flag, the inhibit set and the mode are.
C5_ShortcutNeverBroadcast ==
    (Pressed /\ out.matched # None) => out.call = None

\* a shortcut dispatched while broadcast is on and the key is not inhibited
C5_Witness ==
    /\ Pressed /\ out.dispatch = <<"window", 0>>
    /\ out.bcast /\ enabled /\ ~out.inhibited /\ out.activate = 1

\* C6: a key-down of a modifier key (a left or right alt, control or shift)
\* never dispatches a shortcut and never makes a Broadcaster call.
C6_ModifierOnlyTracked ==
    (Pressed /\ out.key \in ModifierKeys) =>
        (out.call = None /\ out.dispatch = None)

\* C9: a key-down whose key name or combo is in the inhibit set and which
\* matches no shortcut makes no Broadcaster call.
C9_InhibitedNeverBroadcast ==
    (Pressed /\ out.inhibited /\ out.matched = None) => out.call = None

\* Escape, inhibited, pressed with the focus on a managed window and
\* broadcast on: everything but the inhibit set lets it through
C9_Witness ==
    /\ Pressed /\ out.name = "escape" /\ out.inhibited /\ out.matched = None
    /\ out.bcast /\ out.active \in Range(wins) /\ ~out.repeat /\ out.guard = 0

\* C10: while broadcast_enabled is false no key-down makes a Broadcaster
\* call, and shortcuts are dispatched as before: a matching key-down that
\* passes the focus gate is dispatched, and toggle_broadcast turns it on again.
C10_DisabledStopsBroadcastOnly ==
    (Pressed /\ ~out.bcast) =>
        /\ out.call = None
        /\ (out.active \in Range(wins) /\ out.matched # None) => out.dispatch = out.matched
        /\ out.dispatch = <<"action", "toggle_broadcast">> => (broadcast_enabled /\ enabled)

\* with broadcast off and the Broadcaster itself still enabled, a plain key
\* that nothing else stops
C10_Witness ==
    /\ Pressed /\ ~out.bcast /\ enabled /\ out.matched = None /\ ~out.inhibited
    /\ out.active \in Range(wins) /\ ~out.repeat /\ out.guard = 0
    /\ ~IsModifier(out.name)

\* ------------------------------------------------- claims on the sends
Visited(tr) == [i \in 1..Len(tr) |-> tr[i].t]
NotExcluded(call) == SelectSeq(call.targets, LAMBDA w : w # call.exclude)
IsPrefix(a, b) == Len(a) <= Len(b) /\ SubSeq(b, 1, Len(a)) = a
Ascending(s) == \A i \in 1..(Len(s) - 1) : s[i] < s[i + 1]
Deliveries(tr, w) == Cardinality({i \in 1..Len(tr) : tr[i].got = w})

C4_SweepOrder ==
    /\ pc \in {"sweep", "raised"} =>
           IsPrefix(Visited(trace), NotExcluded(send))
    /\ SentBy("focus_sweep") =>
           /\ IsPrefix(Visited(out.trace), NotExcluded(out.call))
           /\ ~out.raised => Visited(out.trace) = NotExcluded(out.call)
           /\ out.call.targets = wins
           /\ Ascending(out.call.targets)

\* a sweep over three windows, the middle one excluded, that visited both others
C4_Witness ==
    /\ SentBy("focus_sweep") /\ ~out.raised
    /\ out.call.exclude = 2 /\ Visited(out.trace) = <<1, 3>>

\* C7: with broadcast on, no inhibited key and the focus on a managed
\* window, the first press of a plain printable key that matches no
\* shortcut makes one send_literal call with the whole managed sequence as
\* targets and the focused window as exclude, and that send delivers the
\* character exactly once to every managed window but the focused one.
C7_PlainKeyDelivered ==
    /\ ( /\ Pressed /\ out.bcast /\ inhibit_keys = {} /\ out.guard = 0
         /\ out.active \in Range(wins) /\ ~out.repeat /\ ~out.mods
         /\ _is_printable_char(out.name) /\ out.matched = None )
       => ( /\ out.call # None
            /\ out.call.fn = "send_literal"
            /\ out.call.targets = wins
            /\ out.call.exclude = focus )
    /\ (out.op = "sent" /\ out.call.fn = "send_literal")
       => \A w \in Range(out.call.targets) :
              Deliveries(out.trace, w) = IF w = out.call.exclude THEN 0 ELSE 1

\* C8: no send delivers the key or literal to the window passed as exclude.
C8_ExcludedNeverInjected ==
    out.op = "sent" =>
        \A i \in 1..Len(out.trace) : out.trace[i].got # out.call.exclude

\* C11: a send in background mode activates no window and leaves the
\* focused window as it was when the send was entered, whatever the targets
\* are and whichever injections fail.
C11_BackgroundKeepsFocus ==
    SentBy("background") =>
        /\ focus = out.focus0
        /\ \A i \in 1..Len(out.trace) : ~out.trace[i].act

\* a background send over two targets, the focus on a third window, one
\* injection failed and one succeeded
C11_Witness ==
    /\ SentBy("background") /\ Len(out.trace) = 2
    /\ out.focus0 \notin Range(out.call.targets)
    /\ out.trace[1].got = NoWin /\ out.trace[2].got = out.trace[2].t

\* C12: in background mode every target that is not excluded gets exactly
\* one injection attempt, in target order, whichever attempts fail, and the
\* send returns normally.
C12_BackgroundAttemptsAll ==
    SentBy("background") =>
        /\ Visited(out.trace) = NotExcluded(out.call)
        /\ ~out.raised

\* a background send whose first attempt failed and whose second target
\* still got the key
C12_Witness ==
    /\ SentBy("background") /\ Len(NotExcluded(out.call)) = 2
    /\ out.call.exclude # NoWin
    /\ out.trace[1].got = NoWin /\ out.trace[2].got = out.trace[2].t

\* C13: in a focus sweep a failed injection does not cut the batch short:
\* every target that is not excluded is visited (activated, then injected),
\* also those after the target whose injection failed.
C13_SweepGoesOnAfterFailure ==
    SentBy("focus_sweep") => Visited(out.trace) = NotExcluded(out.call)

\* C14: as long as stop() has not been called, whatever focus query,
\* activation or injection has failed, the key listener is alive and the
\* focus poller is in its loop.
C14_TasksSurviveErrors ==
    stop_pc = "no" => (listening /\ poller \in {"loop", "query"})

\* ------------------------------------------- claims on the shortcuts
Reparsed == out.op = "reparse"

\* the canonical string of a set of modifiers and a key token
Canonical(M, key) ==
    Join((IF "alt" \in M THEN <<"alt">> ELSE << >>) \o
         (IF "control" \in M THEN <<"control">> ELSE << >>) \o
         (IF "shift" \in M THEN <<"shift">> ELSE << >>) \o <<key>>)

\* C15: a binding written as modifiers from {alt, control, shift} in any
\* order and any casing, then a key token in any casing, normalizes to the
\* modifiers in the order alt, control, shift and the lower-cased key.
C15_NormalizeCanonical ==
    Reparsed =>
        \A ms \in ModOrders, key \in KeyTokens :
            \A cs \in Casings(ms) :
                out.spec = Spelled(ms, cs, key) =>
                    out.norm = Canonical(Range(ms), key)

\* "shift+CONTROL+ALT+F1" reparsed
C15_Witness ==
    /\ Reparsed
    /\ out.spec = <<"shift", Sep, "CONTROL", Sep, "ALT", Sep, "F1">>
    /\ out.norm = <<"alt", Sep, "control", Sep, "shift", Sep, "f1">>

\* The binding declared first for a combo: the actions in the order _rebuild
\* reads them, then the window keys in config order.
RECURSIVE FirstAction(_, _, _)
FirstAction(sc, i, combo) ==
    IF i > Len(ActionKeys) THEN None
    ELSE IF normalize_shortcut(sc[ActionKeys[i]]) = combo
         THEN <<"action", ActionKeys[i]>>
    ELSE FirstAction(sc, i + 1, combo)

RECURSIVE FirstWindowKey(_, _, _)
FirstWindowKey(wk, i, combo) ==
    IF i > Len(wk) THEN None
    ELSE IF normalize_shortcut(wk[i]) = combo THEN <<"window", i - 1>>
    ELSE FirstWindowKey(wk, i + 1, combo)

FirstDeclared(sc, combo) ==
    IF combo = << >> THEN None
    ELSE IF FirstAction(sc, 1, combo) # None THEN FirstAction(sc, 1, combo)
    ELSE FirstWindowKey(sc.window_keys, 1, combo)

\* C16: match returns the earliest declared binding of the typed combo: an
\* action before a window key, among the actions the first in declaration
\* order, among the window keys the first in config order.
C16_FirstMatchWins ==
    Pressed => out.matched = FirstDeclared(shortcuts, out.combo)

\* the string a matched binding was written as in the config
BoundSpec(sc, matched) ==
    IF matched[1] = "action" THEN sc[matched[2]]
    ELSE sc.window_keys[matched[2] + 1]

\* C17: a binding that is not modifiers of {alt, control, shift} followed by
\* one key token (empty, separators only, a modifier without a key, an
\* unknown modifier) normalizes to the empty string, and no key-down matches
\* a binding whose normalization is empty.
C17_NoComboIsEmpty ==
    /\ Reparsed /\ out.spec \in NoComboSpecs => out.norm = << >>
    /\ Pressed /\ out.matched # None =>
          /\ BoundSpec(shortcuts, out.matched) \notin NoComboSpecs
          /\ normalize_shortcut(BoundSpec(shortcuts, out.matched)) # << >>

\* C18: send_key and send_literal called on a disabled Broadcaster or with an
\* empty payload do nothing, in either mode: no window is activated, nothing
\* is injected and the focus is where it was.
C18_DisabledOrEmptyIsNoOp ==
    out.op = "sent" /\ (~out.enabled \/ out.call.payload = << >>) =>
        /\ out.how = "noop"
        /\ out.trace = << >>
        /\ ~out.raised
        /\ focus = out.focus0

\* a disabled Broadcaster in focus_sweep mode asked to send g to two windows
\* that are not excluded
C18_Witness ==
    /\ SentBy("noop") /\ mode = "focus_sweep"
    /\ ~out.enabled /\ out.call.payload = <<"g">>
    /\ Len(NotExcluded(out.call)) >= 2

\* The neighbours of a managed window in managed-set order, with the wrap.
Follows(w) ==
    LET i == IndexOf(wins, w) IN IF i = Len(wins) THEN wins[1] ELSE wins[i + 1]
Precedes(w) ==
    LET i == IndexOf(wins, w) IN IF i = 1 THEN wins[Len(wins)] ELSE wins[i - 1]
Neighbour(step, w) == IF step = 1 THEN Follows(w) ELSE Precedes(w)

Switched == out.op = "switch"
Managed(w) == w \in Range(wins)
SwitchKey == Pressed /\ out.dispatch \in {<<"action", "next">>, <<"action", "prev">>}
KeyStep == IF out.dispatch = <<"action", "next">> THEN 1 ELSE -1
AllNext == [i \in 1..Len(wins) |-> 1]

\* what next / prev activate, given the window w they take as the focused one
SwitchesFrom(w, target) ==
    /\ wins = << >> => target = NoWin
    /\ wins # << >> /\ Managed(w) => target = Neighbour(out.step, w)
    /\ wins # << >> /\ ~Managed(w) => target = wins[1]

StoppedSafe ==
    /\ Pressed /\ ~out.running =>
          /\ out.dispatch = None /\ out.activate = NoWin /\ out.call = None
          /\ pc = "idle"
    /\ stop_pc = "done" =>
          /\ ~running /\ ~listening
          /\ grabbed = {}
          /\ pc = "idle" => suppress_events = 0

\* C20: after stop() a key-down is neither dispatched as a shortcut nor
\* broadcast, the listener is stopped, the set of held grabs is empty, the
\* guard counter is 0 once the handler in flight has returned, and the
\* poller's loop exits.
C20_StopStopsAll ==
    /\ []StoppedSafe
    /\ (stop_pc = "done") ~> (poller = "done")
    /\ [](poller = "done" => [](poller = "done"))

\* stop() has returned, the poller has left its loop, and the last key-down,
\* which arrived after running was cleared, was dropped
C20_Witness ==
    /\ stop_pc = "done" /\ poller = "done"
    /\ Pressed /\ ~out.running /\ out.guard = 0
    /\ out.bcast /\ enabled /\ out.active \notin Range(wins)

\* C21: the injection guard is released on every exit path: when a
\* focus-sweep broadcast made by on_press ends, by returning or by a raise of
\* a failed injection, the guard counter is what it was before on_press
\* entered the guard, and the counter is never negative.
C21_GuardReleased ==
    /\ suppress_events >= 0
    /\ SentBy("focus_sweep") /\ out.call.guarded => suppress_events = out.call.guard0

\* a guarded sweep that an injection failure ended
C21_Witness ==
    /\ SentBy("focus_sweep") /\ out.call.guarded /\ out.raised
    /\ Len(out.trace) = 2 /\ suppress_events = 0

\* C22: a key-down handed to on_press while the injection-guard counter is
\* above 0 is ignored entirely: it dispatches no shortcut, activates no
\* window and makes no Broadcaster call, and the step leaves the pressed-key
\* sets and the focus as they were.
C22_GuardedKeyIgnored ==
    /\ [](Pressed /\ out.guard > 0 =>
             /\ out.dispatch = None /\ out.activate = NoWin /\ out.call = None
             /\ pc = "idle")
    /\ [][Pressed' /\ out'.guard > 0 =>
             /\ current_keys' = current_keys
             /\ pressed_names' = pressed_names
             /\ focus' = focus
             /\ suppress_events' = suppress_events]_vars

\* Alt was down before the guard was entered; g pressed under the guard is
\* the combo of the action next, on a managed window, and is dropped
C22_Witness ==
    /\ Pressed /\ out.guard > 0 /\ out.running
    /\ out.matched = <<"action", "next">>
    /\ focus \in Range(wins)
    /\ "g" \notin pressed_names

\* C23: a name is in the pressed-key set only while its physical key is
\* down: the name on_press recorded is removed by the on_release of the same
\* key, so with every key released and no injected event still to be
\* delivered the set is empty.
C23_ReleasedKeysForgotten ==
    held = {} /\ injq = << >> => pressed_names = {}

\* a key-down that on_press went on to handle: not ignored, not a modifier,
\* not a repeat
Handled ==
    Pressed /\ out.running /\ out.guard = 0 /\ ~IsModifier(out.name) /\ ~out.repeat
Acted == out.dispatch # None \/ out.activate # NoWin \/ out.call # None

\* C24 as stated: a key-down handled while active_window, the value the
\* focus poller stored last, is not a managed window is consumed without
\* acting: its press is recorded, no shortcut is dispatched, no window is
\* activated and no Broadcaster call is made.
C24_GateOnActiveWindow ==
    Handled /\ active_window \notin Range(wins) =>
        ~Acted /\ _stable_name_for_sets(out.name) \in pressed_names

\* C24 amended: the gate is on the window on_press's own focus query
\* returns, a failed query counting as no managed window.
C24_GateOnQuery ==
    Handled /\ out.active \notin Range(wins) =>
        ~Acted /\ _stable_name_for_sets(out.name) \in pressed_names

\* F1, the first window key, pressed with the focus on the window that is
\* not managed: recorded and consumed
C24_Witness ==
    /\ Handled /\ out.active \notin Range(wins) /\ out.active # NoWin
    /\ out.matched = <<"window", 0>> /\ out.bcast
    /\ "f1" \in pressed_names

\* C25: the record of held grabs and the grabs in effect agree: the X server
\* never holds a key grab of the controller while the record is empty, also
\* after a grab or an ungrab call has failed.
C25_NoGrabBehindEmptyRecord ==
    grabbed = {} => os_grabs = {}

\* C26: while the active window is not a managed window (or no window is
\* managed) no key is intercepted: the record of held grabs is empty.
C26_PassthroughOffManaged ==
    (wins = << >> \/ active_window \notin Range(wins) \/ focus \notin Range(wins))
        => grabbed = {}

\* C27: the grabs follow the shortcut table: after reparse_shortcuts with
\* grabs held, the held-grab set is the set of combos of the new table.
C27_GrabsFollowTable ==
    Reparsed /\ grabbed # {} =>
        grabbed = all_shortcut_combos(action_map, window_indices)

Polled == out.op = "poll"

\* C28: the poller is edge-triggered: a poll that returns the value of the
\* poll before it changes nothing and notifies nobody; a poll notifies only
\* when its value differs from the last one, and active_window is then that
\* value.
C28_PollerEdgeTriggered ==
    Polled =>
        /\ out.cur = out.seen => ~out.notified /\ active_window = out.before
        /\ out.notified => out.cur # out.seen /\ active_window = out.cur
        /\ last = out.cur

\* a successful poll that found the focus where the poll before had found it
C28_Witness ==
    /\ Polled /\ out.ok /\ out.cur = out.seen /\ ~out.notified
    /\ out.cur \in Range(wins)

\* C29: a focus query that fails leaves active_window as it was and emits
\* no notification.
C29_FailedQueryKeepsValue ==
    Polled /\ ~out.ok => active_window = out.before /\ ~out.notified

\* C30: a rebuild of the shortcut table is atomic for a concurrent match:
\* what a match returns is what a complete table gives for its combo, the
\* table replaced or the table built, never the answer of a table half built.
C30_RebuildAtomic ==
    out.op = "match" => out.result \in out.allowed

\* C31: a key-down that on_press matches to a window-index binding was
\* declared at the 0-based position n of window_keys that the match
\* returns; it activates the window at index n of the managed window
\* sequence, or no window when n is not a valid index, and in both cases
\* makes no Broadcaster call.
C31_WindowIndexActivates ==
    (Pressed /\ out.dispatch # None /\ out.dispatch[1] = "window") =>
        LET n == out.dispatch[2]
        IN  /\ n + 1 \in 1..Len(shortcuts.window_keys)
            /\ normalize_shortcut(shortcuts.window_keys[n + 1]) = out.combo
            /\ out.activate = (IF n < Len(wins) THEN wins[n + 1] ELSE NoWin)
            /\ out.call = None
            /\ pc = "idle"

\* the binding at position 2, behind an empty entry, activates the third window
C31_Witness ==
    /\ Pressed /\ out.dispatch = <<"window", 2>>
    /\ Len(wins) = 3 /\ out.activate = wins[3]

\* a binding whose position is not an index of the window sequence
C31_NoSuchWindow ==
    /\ Pressed /\ out.dispatch # None /\ out.dispatch[1] = "window"
    /\ out.dispatch[2] >= Len(wins) /\ out.activate = NoWin

\* the modifiers the user holds down
HeldAlt == held \cap AltKeys # {}
HeldCtrl == held \cap CtrlKeys # {}
HeldShift == held \cap ShiftKeys # {}

\* the key token of a key name: enter to Return, tab, backspace, the
\* function keys upper-cased, else the lowercase key name
KeyToken(name) ==
    CASE name = "enter" -> "Return"
      [] name = "tab" -> "Tab"
      [] name = "backspace" -> "BackSpace"
      [] name = "f1" -> "F1"
      [] OTHER -> name

\* a key-down of a key that is not a modifier, handed over by the keyboard,
\* that was broadcast
BroadcastKeyDown ==
    Pressed /\ ~out.synth /\ out.call # None /\ out.key \notin ModifierKeys

\* C32: a broadcast key-down is sent with send_literal if and only if no
\* alt, control or shift is held and the key is a single printable
\* character; otherwise it is sent with send_key, the held modifiers
\* prefixed in the order alt, ctrl, shift to the key token.
C32_PayloadClassification ==
    BroadcastKeyDown =>
        /\ out.call.fn \in {"send_literal", "send_key"}
        /\ out.call.fn = "send_literal"
              <=> (~(HeldAlt \/ HeldCtrl \/ HeldShift) /\ out.name \in PrintableChars)
        /\ out.call.fn = "send_key" =>
              out.call.payload =
                  Join((IF HeldAlt THEN <<"alt">> ELSE << >>) \o
                       (IF HeldCtrl THEN <<"ctrl">> ELSE << >>) \o
                       (IF HeldShift THEN <<"shift">> ELSE << >>) \o
                       <<KeyToken(out.name)>>)

\* C33: the character passed to send_literal is the character the key event
\* carries, its case unchanged.
C33_LiteralKeepsGlyph ==
    (Pressed /\ out.call # None /\ out.call.fn = "send_literal") =>
        out.call.payload = <<out.key>>

\* the targets of a call among the windows the controller managed when the
\* call was made
Started0(call) == SelectSeq(call.wins0, LAMBDA w : w # call.exclude)

\* C34: the managed window sequence never holds a window twice nor an empty
\* id, and a rescan does not change the list a sweep is iterating: the sweep
\* visits, in order, the targets of the sequence it was started with (all of
\* them unless an injection raises).
C34_WindowsReplacedWholesale ==
    /\ NoWin \notin Range(wins)
    /\ \A i, j \in 1..Len(wins) : i # j => wins[i] # wins[j]
    /\ pc \in {"sweep", "raised"} => IsPrefix(Visited(trace), Started0(send))
    /\ SentBy("focus_sweep") =>
           /\ IsPrefix(Visited(out.trace), Started0(out.call))
           /\ ~out.raised => Visited(out.trace) = Started0(out.call)

\* a sweep over two targets that ended after a rescan had replaced the
\* window sequence by a different one
C34_Witness ==
    /\ SentBy("focus_sweep") /\ ~out.raised
    /\ Len(out.trace) = 2 /\ wins # out.call.wins0 /\ wins # << >>

\* a step of the focus poller's query
PollerStep == poller = "query" /\ poller' = "loop"

\* C35: after construction only the focus poller assigns active_window:
\* every step that changes it is a step of the poller's query; key-down and
\* key-up handling, the shortcut actions, both broadcast strategies and the
\* configuration operations leave it as it is.
C35_SingleWriter ==
    [][active_window' # active_window => PollerStep]_vars

\* the focus has been moved by a window-index shortcut, and active_window
\* still has the window the poller saw before
C35_Witness ==
    /\ Pressed /\ out.dispatch # None /\ out.activate # NoWin
    /\ focus = out.activate /\ active_window # focus /\ last # NoLast

\* C36: the injection-guard counter is above 0 while on_press is inside a
\* focus-sweep broadcast, from before the first activation until after the
\* restore, and 0 in every other state: between two callbacks, and during
\* the whole of a background-mode broadcast.
C36_GuardExactlyInSweep ==
    /\ pc \in {"sweep", "raised"} /\ send.caller = "on_press" => suppress_events > 0
    /\ pc = "idle" => suppress_events = 0
    /\ SentBy("background") /\ out.call.caller = "on_press" => out.call.guard0 = 0
                                                             /\ ~out.call.guarded

\* C37: the window on_press excludes from a focus-sweep broadcast and the
\* window the sweep restores the focus to (the Broadcaster's own query at
\* the start of the sweep) are the same window.
C37_ExcludedIsRestored ==
    (SentBy("focus_sweep") /\ out.call.caller = "on_press") =>
        out.snapshot = out.call.exclude

\* C38: a focus sweep does not disturb the focus poller: a poll made while
\* the sweep is running, whose query answers, stores in active_window and
\* notifies nothing but the window that had the focus before the sweep.
C38_SweepHiddenFromPoller ==
    (Polled /\ pc \in {"sweep", "raised"} /\ out.ok /\ out.notified) =>
        /\ out.cur = focus0
        /\ active_window = focus0

\* C39: whenever a key-down is processed the controller's broadcast_enabled
\* flag and the Broadcaster's enabled flag agree, and no Broadcaster call
\* made by on_press is dropped by the Broadcaster's own check.
C39_FlagsAgree ==
    /\ Pressed => broadcast_enabled = enabled
    /\ ~(SentBy("noop") /\ out.call.caller = "on_press" /\ out.call.payload # << >>)

\* a key-down of the keyboard for the key of the hold in progress: an
\* auto-repeat
RepeatStep ==
    /\ hold.key # "" /\ hold'.key = hold.key /\ held' = held
    /\ out'.op = "press" /\ ~out'.synth /\ Phys(out'.key) = hold.key

\* C40: when the first key-down of a hold was processed with the focus
\* outside the managed set, no later key-down of that hold dispatches a
\* shortcut or makes a Broadcaster call, wherever the focus is by then.
C40_GatedHoldStaysSilent ==
    [][hold.gated /\ RepeatStep => out'.call = None /\ out'.dispatch = None]_vars

============================================================================
